---- MODULE Spec2Model ----
(***************************************************************************)
(* SparseSC: the top-level driver fit() of SparseSC/fit.py, its helper     *)
(* __choose and the result class SparseSCFit with its predict method.      *)
(*                                                                         *)
(* One behaviour is one call of fit followed by one call of predict on the *)
(* returned object.  The collaborators w_pen_guestimate, get_max_v_pen,    *)
(* CV_score, tensor and weights live in other modules of the package; a    *)
(* call to one of them appends a record of its arguments to `calls` and    *)
(* its return value is drawn from a small set.                             *)
(*                                                                         *)
(* Python values of varying type are tagged records: the tag k sorts       *)
(* first, so values of different kinds are always comparable.              *)
(***************************************************************************)
EXTENDS Integers, Sequences, FiniteSets, TLC

\* ---------------------------------------------------------------- bounds
\* number of rows of X and Y (units)
NUnits == 3
\* longest treated_units argument that is enumerated
MaxTreated == 2
\* cross-validation scores range over 0..MaxScore
MaxScore == 1

\* ---------------------------------------------------- program constants
\* default of cv_folds
CvFolds == 10
\* default of gradient_seed
GradientSeed == 10101

\* ------------------------------------------------------- tagged values
None == [k |-> "None"]
NotPassed == [k |-> "NotPassed"]
Scalar(x) == [k |-> "scalar", v |-> x]
List(s) == [k |-> "list", v |-> s]
\* M[rows, :] for the input matrix named m ("X", "Y" or "custom_donor_pool")
Rows(m, rows) == [k |-> "rows", m |-> m, v |-> rows]

IsNone(x) == x.k = "None"
\* iter(x) succeeds
IsIterable(x) == x.k = "list"

Units == 0 .. (NUnits - 1)
\* range(Y.shape[0]) as a sequence
UnitSeq == [i \in 1 .. NUnits |-> i - 1]
Range(s) == {s[i] : i \in 1 .. Len(s)}
Whole(m) == Rows(m, UnitSeq)

RECURSIVE SumTo(_, _)
SumTo(f, n) == IF n = 0 THEN 0 ELSE f[n] + SumTo(f, n - 1)

\* ----------------------------------------------------------- matrices
\* a matrix is [nr, nc, a]: a[i][j] is the entry of row i, column j (from 1)
Matrix(nr, nc, a) == [k |-> "matrix", nr |-> nr, nc |-> nc, a |-> a]

\* M[idx, :] for a sequence idx of 0-based row indices
TakeRows(M, idx) ==
    Matrix(Len(idx), M.nc, [i \in 1 .. Len(idx) |-> M.a[idx[i] + 1]])

ShapeError == [k |-> "ValueError"]

\* numpy's W.dot(D): the inner dimensions must agree
Dot(W, D) ==
    IF W.nc # D.nr
    THEN ShapeError
    ELSE Matrix(W.nr, D.nc,
                [i \in 1 .. W.nr |->
                   [t \in 1 .. D.nc |->
                      SumTo([j \in 1 .. W.nc |-> W.a[i][j] * D.a[j][t]], W.nc)]])

\* the outcome matrix Y: one column, row u holds u + 1
YMat == Matrix(NUnits, 1, [i \in 1 .. NUnits |-> <<i>>])

\* ------------------------------------------------------------- inputs
SeqsUpTo(S, n) == UNION {[1 .. m -> S] : m \in 0 .. n}

Monotone(s) ==
    \/ \A i \in 1 .. (Len(s) - 1) : s[i] <= s[i + 1]
    \/ \A i \in 1 .. (Len(s) - 1) : s[i] >= s[i + 1]

\* treated_units: None, an int (not iterable), or a list of ints that may
\* hold duplicates, negative indices and indices >= Y.shape[0]
TreatedUnitsInputs ==
    {None, Scalar(0)} \cup
    {List(s) : s \in {t \in SeqsUpTo(-1 .. NUnits, MaxTreated) : Monotone(t)}}

ModelTypes == {"retrospective", "prospective", "prospective-restricted", "full", "bogus"}

WeightPenaltyInputs == {None, Scalar(1)}

\* (covariate_penalties, grid): grid is read only when covariate_penalties
\* is None, so it is None in the other cases
PenaltyInputs ==
    {<<None, None>>, <<None, Scalar(3)>>,
     <<Scalar(2), None>>, <<List(<<3, 1>>), None>>}

Callable == [k |-> "callable"]
Str(s) == [k |-> "str", v |-> s]
ChoiceInputs == {Str("min"), Callable, Str("max")}
\* what the caller's choice function returns
CallableResult == Scalar(4)

LastUnit == NUnits - 1
FoldA == <<Units \ {LastUnit}, {LastUnit}>>
FoldB == <<Units \ {0}, {0}>>
FoldC == <<{0}, Units \ {0}>>
\* gradient_folds: an int for KFold, or an explicit list of (train, test)
GradientFoldsInputs ==
    {Scalar(2)} \cup
    {List(<<FoldA, FoldB>>), List(<<FoldB, FoldC>>), List(<<FoldC>>)}

DonorPoolInputs == {None, Whole("custom_donor_pool")}

\* --------------------------------------------------------------- state
VARIABLES
    pc,                  \* position in fit / predict
    err,                 \* the exception that ended fit, or None
    arg,                 \* the arguments fit was called with
    control_units,       \* local of fit
    weight_penalty,      \* local of fit (parameter, reassigned)
    covariate_penalties, \* local of fit (parameter, reassigned)
    gradient_folds,      \* local of fit (parameter, reassigned)
    split,               \* the folds before the "prospective" re-forming
    scores,              \* local of fit
    best_v_pen,          \* local of fit
    best_V,              \* local of fit
    sc_weights,          \* local of fit
    assigned,            \* how often each row of sc_weights was written
    calls,               \* the collaborator calls made so far, in order
    result,              \* the SparseSCFit returned by fit, or None
    prediction           \* what predict returned, or None

vars == <<pc, err, arg, control_units, weight_penalty, covariate_penalties,
          gradient_folds, split, scores, best_v_pen, best_V, sc_weights,
          assigned, calls, result, prediction>>

Init ==
    /\ pc = "start"
    /\ err = None
    /\ arg \in {[treated_units |-> tu, weight_penalty |-> wp,
                 covariate_penalties |-> pg[1], grid |-> pg[2], choice |-> ch,
                 gradient_folds |-> gf, model_type |-> mt,
                 custom_donor_pool |-> dp] :
                  tu \in TreatedUnitsInputs, wp \in WeightPenaltyInputs,
                  pg \in PenaltyInputs, ch \in ChoiceInputs,
                  gf \in GradientFoldsInputs, mt \in ModelTypes,
                  dp \in DonorPoolInputs}
    /\ control_units = None
    /\ weight_penalty = arg.weight_penalty
    /\ covariate_penalties = arg.covariate_penalties
    /\ gradient_folds = arg.gradient_folds
    /\ split = None
    /\ scores = None
    /\ best_v_pen = None
    /\ best_V = None
    /\ sc_weights = None
    /\ assigned = [u \in Units |-> 0]
    /\ calls = <<>>
    /\ result = None
    /\ prediction = None

Error(type, line) == [k |-> "error", type |-> type, line |-> line]

Raise(e) ==
    /\ pc' = "raised"
    /\ err' = e

\* ---------------------------------------------------- collaborator calls
BlankCall ==
    [fn |-> "", X |-> NotPassed, Xtest |-> NotPassed, Y |-> NotPassed,
     X_treat |-> NotPassed, Y_treat |-> NotPassed, splits |-> NotPassed,
     v_pen |-> NotPassed, w_pen |-> NotPassed, grad_splits |-> NotPassed,
     random_state |-> NotPassed, V |-> NotPassed,
     custom_donor_pool |-> NotPassed]

\* ------------------------------------------- Phase 0: data wrangling
\* the checks of treated_units without the check for negative indices
ValidationErrorNoSign(treated_units) ==
    IF ~IsIterable(treated_units)
    THEN Error("ValueError", 180)
    ELSE IF Cardinality(Range(treated_units.v)) # Len(treated_units.v)
    THEN Error("AssertionError", 182)
    ELSE IF ~(\A i \in 1 .. Len(treated_units.v) : treated_units.v[i] < NUnits)
    THEN Error("AssertionError", 187)
    ELSE None

\* the exception raised by the checks of treated_units, or None
ValidationError(treated_units) ==
    IF ~IsIterable(treated_units)
    THEN Error("ValueError", 180)
    ELSE IF Cardinality(Range(treated_units.v)) # Len(treated_units.v)
    THEN Error("AssertionError", 182)
    ELSE IF ~(\A i \in 1 .. Len(treated_units.v) : treated_units.v[i] < NUnits)
    THEN Error("AssertionError", 187)
    ELSE IF ~(\A i \in 1 .. Len(treated_units.v) : treated_units.v[i] >= 0)
    THEN Error("AssertionError", 188)
    ELSE None

\* the control units taken from range(Y.shape[0] - 1)
ControlUnitsShort(treated_units) ==
    SelectSeq(SubSeq(UnitSeq, 1, NUnits - 1), LAMBDA u : u \notin Range(treated_units))

\* [u for u in range(Y.shape[0]) if u not in treated_units]
ControlUnits(treated_units) ==
    SelectSeq(UnitSeq, LAMBDA u : u \notin Range(treated_units))

Validate ==
    /\ pc = "start"
    /\ ~IsNone(arg.treated_units)
    /\ IF IsNone(ValidationError(arg.treated_units))
       THEN /\ control_units' = List(ControlUnits(arg.treated_units.v))
            /\ pc' = "w_pen"
            /\ err' = err
       ELSE /\ Raise(ValidationError(arg.treated_units))
            /\ control_units' = control_units
    /\ UNCHANGED <<arg, weight_penalty, covariate_penalties, gradient_folds,
                   split, scores, best_v_pen, best_V, sc_weights, assigned,
                   calls, result, prediction>>

Xtrain == Rows("X", control_units.v)
Xtest == Rows("X", arg.treated_units.v)
Ytrain == Rows("Y", control_units.v)
Ytest == Rows("Y", arg.treated_units.v)

\* ------------------------------------------------ (sensible?) defaults
\* what w_pen_guestimate returns
WPenGuestimate == Scalar(5)
\* what get_max_v_pen returns
VPenMax == 2
\* np.exp(np.linspace(np.log(min_v_pen), np.log(max_v_pen), grid_points)),
\* scaled to integers: an increasing array
DefaultGrid == List(<<1, 2>>)

\* grid * v_pen_max
Times(grid, v_pen_max) ==
    IF IsIterable(grid)
    THEN List([i \in 1 .. Len(grid.v) |-> grid.v[i] * v_pen_max])
    ELSE Scalar(grid.v * v_pen_max)

WPenGuestimateCall(X) ==
    [BlankCall EXCEPT !.fn = "w_pen_guestimate", !.X = X]

GetMaxVPenCall(X, Y, w_pen, grad_splits) ==
    [BlankCall EXCEPT !.fn = "get_max_v_pen", !.X = X, !.Y = Y,
                      !.w_pen = w_pen, !.grad_splits = grad_splits]

ResolveWeightPenalty ==
    /\ pc = "w_pen"
    /\ IF IsNone(weight_penalty)
       THEN /\ calls' = Append(calls, WPenGuestimateCall(Xtrain))
            /\ weight_penalty' = WPenGuestimate
       ELSE UNCHANGED <<calls, weight_penalty>>
    /\ pc' = "v_pen"
    /\ UNCHANGED <<err, arg, control_units, covariate_penalties, gradient_folds,
                   split, scores, best_v_pen, best_V, sc_weights, assigned,
                   result, prediction>>

ResolveCovariatePenalties ==
    /\ pc = "v_pen"
    /\ IF IsNone(covariate_penalties)
       THEN LET grid == IF IsNone(arg.grid) THEN DefaultGrid ELSE arg.grid
            IN /\ calls' = Append(calls, GetMaxVPenCall(Xtrain, Ytrain,
                                                       weight_penalty, gradient_folds))
               /\ covariate_penalties' = Times(grid, VPenMax)
       ELSE UNCHANGED <<calls, covariate_penalties>>
    /\ pc' = "model"
    /\ UNCHANGED <<err, arg, control_units, weight_penalty, gradient_folds,
                   split, scores, best_v_pen, best_V, sc_weights, assigned,
                   result, prediction>>

\* ------------------------------------------------- model_type dispatch
\* KFold(n_splits, shuffle=True, random_state=...).split(np.arange(N)): the
\* test sets partition the units, the first N % n_splits of them hold
\* N // n_splits + 1 units and the others N // n_splits; which units fall
\* in which test set depends on the seed
KFoldSplits(n_splits) ==
    LET size(i) == (NUnits \div n_splits) + (IF i <= NUnits % n_splits THEN 1 ELSE 0)
        fits(f) == \A i \in 1 .. n_splits : Cardinality({u \in Units : f[u] = i}) = size(i)
    IN {[i \in 1 .. n_splits |->
            <<{u \in Units : f[u] # i}, {u \in Units : f[u] = i}>>] :
          f \in {g \in [Units -> 1 .. n_splits] : fits(g)}}

\* the re-forming without the final (controls, treated units) fold
ReFormNoAppend(folds, treated_units, controls) ==
    LET moved == [i \in 1 .. Len(folds) |->
                    <<folds[i][1] \cup Range(treated_units),
                      folds[i][2] \ Range(treated_units)>>]
    IN SelectSeq(moved, LAMBDA f : f[1] # {} /\ f[2] # {})

\* the re-forming of the gradient folds for model_type "prospective"
ReForm(folds, treated_units, controls) ==
    LET moved == [i \in 1 .. Len(folds) |->
                    <<folds[i][1] \cup Range(treated_units),
                      folds[i][2] \ Range(treated_units)>>]
        kept == SelectSeq(moved, LAMBDA f : f[1] # {} /\ f[2] # {})
    IN Append(kept, <<Range(controls), Range(treated_units)>>)

\* any(treated_units_set == set(gf[1]) for gf in gradient_folds)
HasTreatedFold(folds, treated_units) ==
    \E i \in 1 .. Len(folds) : folds[i][2] = Range(treated_units)

\* user supplied gradient folds under model_type "prospective"
UserFolds(folds, treated_units, controls) ==
    IF ~HasTreatedFold(folds, treated_units)
    THEN ReForm(folds, treated_units, controls)
    ELSE folds

\* a dispatch that lets "full" through
KnownModelTypeOrFull(model_type) ==
    model_type \in {"retrospective", "prospective", "prospective-restricted", "full"}

KnownModelType(model_type) ==
    model_type \in {"retrospective", "prospective", "prospective-restricted"}

SelectModel ==
    /\ pc = "model"
    /\ IF ~KnownModelType(arg.model_type)
       THEN /\ Raise(Error("ValueError", 377))
            /\ UNCHANGED <<gradient_folds, split>>
       ELSE /\ pc' = "score"
            /\ err' = err
            /\ IF arg.model_type # "prospective"
               THEN UNCHANGED <<gradient_folds, split>>
               ELSE IF ~IsIterable(gradient_folds)
               THEN \E sp \in KFoldSplits(gradient_folds.v) :
                        /\ split' = List(sp)
                        /\ gradient_folds' =
                             List(ReForm(sp, arg.treated_units.v, control_units.v))
               ELSE /\ split' = gradient_folds
                    /\ gradient_folds' =
                         List(UserFolds(gradient_folds.v, arg.treated_units.v,
                                        control_units.v))
    /\ UNCHANGED <<arg, control_units, weight_penalty, covariate_penalties,
                   scores, best_v_pen, best_V, sc_weights, assigned, calls,
                   result, prediction>>


\* ------------------------------- Phase 1: cross fold residual errors
IsFull == IsNone(arg.treated_units)

CVScoreCall(model_type) ==
    IF model_type = "prospective-restricted"
    THEN [BlankCall EXCEPT !.fn = "CV_score", !.X = Xtrain, !.Y = Ytrain,
                           !.X_treat = Xtest, !.Y_treat = Ytest,
                           !.splits = Scalar(CvFolds),
                           !.v_pen = covariate_penalties,
                           !.w_pen = weight_penalty]
    ELSE [BlankCall EXCEPT !.fn = "CV_score",
                           !.X = IF model_type = "retrospective" THEN Xtrain ELSE Whole("X"),
                           !.Y = IF model_type = "retrospective" THEN Ytrain ELSE Whole("Y"),
                           !.splits = Scalar(CvFolds),
                           !.v_pen = covariate_penalties,
                           !.w_pen = weight_penalty,
                           !.grad_splits = gradient_folds,
                           !.random_state = Scalar(GradientSeed)]

\* what CV_score may return: one score per element of v_pen; for a scalar
\* v_pen a single score, bare or in a sequence of one
CVScoreResults(v_pen) ==
    IF IsIterable(v_pen)
    THEN {List(sc) : sc \in [1 .. Len(v_pen.v) -> 0 .. MaxScore]}
    ELSE {Scalar(sc) : sc \in 0 .. MaxScore} \cup {List(<<sc>>) : sc \in 0 .. MaxScore}

CVScore ==
    /\ pc = "score"
    /\ calls' = Append(calls, CVScoreCall(arg.model_type))
    /\ scores' \in CVScoreResults(covariate_penalties)
    /\ pc' = "choose"
    /\ UNCHANGED <<err, arg, control_units, weight_penalty, covariate_penalties,
                   gradient_folds, split, best_v_pen, best_V, sc_weights,
                   assigned, result, prediction>>

\* np.argmin: the first position of the least element (positions from 1)
ArgMin(s) ==
    CHOOSE i \in 1 .. Len(s) :
        /\ \A j \in 1 .. Len(s) : s[i] <= s[j]
        /\ \A j \in 1 .. (i - 1) : s[j] > s[i]

\* __choose taking the last position instead of the argmin
chooseLast(sc, penalties, choice) ==
    IF ~IsIterable(penalties)
    THEN sc
    ELSE IF choice = Str("min")
    THEN Scalar(penalties.v[Len(penalties.v)])
    ELSE IF choice.k = "callable"
    THEN CallableResult
    ELSE Error("ValueError", 500)

\* __choose falling back to the argmin for an unknown choice
chooseLenient(sc, penalties, choice) ==
    IF ~IsIterable(penalties)
    THEN sc
    ELSE IF choice.k = "callable"
    THEN CallableResult
    ELSE Scalar(penalties.v[ArgMin(sc.v)])

\* __choose: the chosen penalty, or the exception it raises
choose(sc, penalties, choice) ==
    IF ~IsIterable(penalties)
    THEN sc
    ELSE IF choice = Str("min")
    THEN Scalar(penalties.v[ArgMin(sc.v)])
    ELSE IF choice.k = "callable"
    THEN CallableResult
    ELSE Error("ValueError", 500)

Choose ==
    /\ pc = "choose"
    /\ LET chosen == choose(scores, covariate_penalties, arg.choice)
       IN IF chosen.k = "error"
          THEN /\ Raise(chosen)
               /\ best_v_pen' = best_v_pen
          ELSE /\ best_v_pen' = chosen
               /\ pc' = "tensor"
               /\ err' = err
    /\ UNCHANGED <<arg, control_units, weight_penalty, covariate_penalties,
                   gradient_folds, split, scores, best_V, sc_weights, assigned,
                   calls, result, prediction>>

\* ----------------------------------- Phase 2: extract V and weights
\* a tensor call that is handed the donor pool as well
TensorCallWithPool(model_type) ==
    [BlankCall EXCEPT !.fn = "tensor",
                      !.X = IF model_type = "retrospective" THEN Xtrain ELSE Whole("X"),
                      !.Y = IF model_type = "retrospective" THEN Ytrain ELSE Whole("Y"),
                      !.v_pen = best_v_pen,
                      !.grad_splits = gradient_folds,
                      !.random_state = Scalar(GradientSeed),
                      !.custom_donor_pool = arg.custom_donor_pool]

TensorCall(model_type) ==
    IF model_type = "prospective-restricted"
    THEN [BlankCall EXCEPT !.fn = "tensor", !.X = Xtrain, !.Y = Ytrain,
                           !.X_treat = Xtest, !.Y_treat = Ytest,
                           !.v_pen = best_v_pen]
    ELSE [BlankCall EXCEPT !.fn = "tensor",
                           !.X = IF model_type = "retrospective" THEN Xtrain ELSE Whole("X"),
                           !.Y = IF model_type = "retrospective" THEN Ytrain ELSE Whole("Y"),
                           !.v_pen = best_v_pen,
                           !.grad_splits = gradient_folds,
                           !.random_state = Scalar(GradientSeed)]

\* what tensor returns: the V fitted at the penalty it was given
TensorResult(v_pen) == [k |-> "V", v_pen |-> v_pen]

Tensor ==
    /\ pc = "tensor"
    /\ calls' = Append(calls, TensorCall(arg.model_type))
    /\ best_V' = TensorResult(best_v_pen)
    /\ pc' = "weights"
    /\ UNCHANGED <<err, arg, control_units, weight_penalty, covariate_penalties,
                   gradient_folds, split, scores, best_v_pen, sc_weights,
                   assigned, result, prediction>>

\* ------------------------------------------- the best set of weights
WeightsCall(X, X_test, V, w_pen, custom_donor_pool) ==
    [BlankCall EXCEPT !.fn = "weights", !.X = X, !.Xtest = X_test, !.V = V,
                      !.w_pen = w_pen, !.custom_donor_pool = custom_donor_pool]

\* what weights returns: one row per target unit, one column per donor
WeightsResult(donors, targets) ==
    Matrix(Len(targets), Len(donors),
           [i \in 1 .. Len(targets) |->
              [j \in 1 .. Len(donors) |-> 1 + ((targets[i] + 2 * donors[j]) % 3)]])

\* the content of a cell of np.empty
Garbage == 0 - 1

\* np.empty((nr, nc))
Empty(nr, nc) == Matrix(nr, nc, [i \in 1 .. nr |-> [j \in 1 .. nc |-> Garbage]])

\* M[:len(idx), :] = R: the rows of R written to the first rows of M
AssignFirstRows(M, idx, R) ==
    [M EXCEPT !.a = [i \in 1 .. M.nr |->
        IF i <= Len(idx) THEN R.a[i] ELSE M.a[i]]]

\* M[idx, :] = R
AssignRows(M, idx, R) ==
    [M EXCEPT !.a = [i \in 1 .. M.nr |->
        IF \E p \in 1 .. Len(idx) : idx[p] = i - 1
        THEN R.a[CHOOSE p \in 1 .. Len(idx) :
                    /\ idx[p] = i - 1
                    /\ \A q \in (p + 1) .. Len(idx) : idx[q] # i - 1]
        ELSE M.a[i]]]

\* the number of writes to each row after M[idx, :] = R
Written(count, idx) ==
    [u \in Units |-> count[u] + Cardinality({p \in 1 .. Len(idx) : idx[p] = u})]

\* custom_donor_pool[rows, :], or None
PoolSlice(custom_donor_pool, rows) ==
    IF IsNone(custom_donor_pool) THEN None ELSE Rows("custom_donor_pool", rows)

WeightsSplit ==
    /\ pc = "weights"
    /\ ~IsFull
    /\ calls' = calls \o
         <<WeightsCall(Xtrain, Xtest, best_V, weight_penalty,
                       PoolSlice(arg.custom_donor_pool, arg.treated_units.v)),
           WeightsCall(Xtrain, NotPassed, best_V, weight_penalty,
                       PoolSlice(arg.custom_donor_pool, control_units.v))>>
    /\ sc_weights' =
         AssignRows(AssignRows(Empty(NUnits, Len(control_units.v)),
                               arg.treated_units.v,
                               WeightsResult(control_units.v, arg.treated_units.v)),
                    control_units.v,
                    WeightsResult(control_units.v, control_units.v))
    /\ assigned' = Written(Written(assigned, arg.treated_units.v), control_units.v)
    /\ pc' = "return"
    /\ UNCHANGED <<err, arg, control_units, weight_penalty, covariate_penalties,
                   gradient_folds, split, scores, best_v_pen, best_V, result,
                   prediction>>

\* ------------------------------------------ treated_units is None
GateFull ==
    /\ pc = "start"
    /\ IsFull
    /\ IF arg.model_type # "full"
       THEN Raise(Error("ValueError", 405))
       ELSE /\ pc' = "full_v_pen"
            /\ err' = err
    /\ control_units' = None
    /\ UNCHANGED <<arg, weight_penalty, covariate_penalties, gradient_folds,
                   split, scores, best_v_pen, best_V, sc_weights, assigned,
                   calls, result, prediction>>

FullResolveCovariatePenalties ==
    /\ pc = "full_v_pen"
    /\ IF IsNone(covariate_penalties)
       THEN LET grid == IF IsNone(arg.grid) THEN DefaultGrid ELSE arg.grid
            IN /\ calls' = Append(calls, GetMaxVPenCall(Whole("X"), Whole("Y"),
                                                       weight_penalty, gradient_folds))
               /\ covariate_penalties' = Times(grid, VPenMax)
       ELSE UNCHANGED <<calls, covariate_penalties>>
    /\ pc' = "full_w_pen"
    /\ UNCHANGED <<err, arg, control_units, weight_penalty, gradient_folds,
                   split, scores, best_v_pen, best_V, sc_weights, assigned,
                   result, prediction>>

FullResolveWeightPenalty ==
    /\ pc = "full_w_pen"
    /\ IF IsNone(weight_penalty)
       THEN /\ calls' = Append(calls, WPenGuestimateCall(Whole("X")))
            /\ weight_penalty' = WPenGuestimate
       ELSE UNCHANGED <<calls, weight_penalty>>
    /\ pc' = "score"
    /\ UNCHANGED <<err, arg, control_units, covariate_penalties, gradient_folds,
                   split, scores, best_v_pen, best_V, sc_weights, assigned,
                   result, prediction>>

WeightsFull ==
    /\ pc = "weights"
    /\ IsFull
    /\ calls' = Append(calls,
                       WeightsCall(Whole("X"), NotPassed, best_V, weight_penalty,
                                   arg.custom_donor_pool))
    /\ sc_weights' = WeightsResult(UnitSeq, UnitSeq)
    /\ assigned' = Written(assigned, UnitSeq)
    /\ pc' = "return"
    /\ UNCHANGED <<err, arg, control_units, weight_penalty, covariate_penalties,
                   gradient_folds, split, scores, best_v_pen, best_V, result,
                   prediction>>

\* ------------------------------------------------------- SparseSCFit
SparseSCFit(controls, treated_units, model_type, V_penalty, w_pen, penalties, V, weights) ==
    [X |-> Whole("X"), Y |-> YMat, control_units |-> controls,
     treated_units |-> treated_units, model_type |-> model_type,
     V_penalty |-> V_penalty, weight_penalty |-> w_pen,
     covariate_penalties |-> penalties, V |-> V, sc_weights |-> weights]

Return ==
    /\ pc = "return"
    /\ result' = SparseSCFit(control_units, arg.treated_units, arg.model_type,
                             best_v_pen, weight_penalty, covariate_penalties,
                             best_V, sc_weights)
    /\ pc' = "done"
    /\ UNCHANGED <<err, arg, control_units, weight_penalty, covariate_penalties,
                   gradient_folds, split, scores, best_v_pen, best_V, sc_weights,
                   assigned, calls, prediction>>

\* the Ydonor argument of predict: None, or a matrix of NUnits - 1 or of
\* NUnits rows
YdonorInputs ==
    {None} \cup
    {Matrix(nr, 1, [i \in 1 .. nr |-> <<2 * i + 5>>]) : nr \in {NUnits - 1, NUnits}}

\* predict defaulting to all of Y whatever the model_type
predictAllOfY(self, Ydonor) ==
    Dot(self.sc_weights, IF IsNone(Ydonor) THEN self.Y ELSE Ydonor)

\* SparseSCFit.predict
predict(self, Ydonor) ==
    LET donor == IF IsNone(Ydonor)
                 THEN IF self.model_type # "full"
                      THEN TakeRows(self.Y, self.control_units.v)
                      ELSE self.Y
                 ELSE Ydonor
    IN Dot(self.sc_weights, donor)

Predict ==
    /\ pc = "done"
    /\ \E Ydonor \in YdonorInputs :
           prediction' = [Ydonor |-> Ydonor, value |-> predict(result, Ydonor)]
    /\ pc' = "predicted"
    /\ UNCHANGED <<err, arg, control_units, weight_penalty, covariate_penalties,
                   gradient_folds, split, scores, best_v_pen, best_V, sc_weights,
                   assigned, calls, result>>

Next ==
    \/ Validate
    \/ ResolveWeightPenalty
    \/ ResolveCovariatePenalties
    \/ SelectModel
    \/ GateFull
    \/ FullResolveCovariatePenalties
    \/ FullResolveWeightPenalty
    \/ CVScore
    \/ Choose
    \/ Tensor
    \/ WeightsSplit
    \/ WeightsFull
    \/ Return
    \/ Predict

Spec == Init /\ [][Next]_vars
\* ================================================================ claims
Raised == pc = "raised"
Returned == pc \in {"done", "predicted"}
Failed(type, line) == Raised /\ err = Error(type, line)
CallsOf(fns) == {i \in 1 .. Len(calls) : calls[i].fn \in fns}

\* the violations of the treated_units contract, read off the argument
NotIterable(tu) == tu.k = "scalar"
HasDuplicate(tu) ==
    tu.k = "list" /\ \E i, j \in 1 .. Len(tu.v) : i # j /\ tu.v[i] = tu.v[j]
HasTooLarge(tu) == tu.k = "list" /\ \E i \in 1 .. Len(tu.v) : tu.v[i] >= NUnits
HasNegative(tu) == tu.k = "list" /\ \E i \in 1 .. Len(tu.v) : tu.v[i] < 0
Malformed(tu) ==
    NotIterable(tu) \/ HasDuplicate(tu) \/ HasTooLarge(tu) \/ HasNegative(tu)

\* model_type does not fit the presence of treated_units
Mismatch ==
    \/ ~IsNone(arg.treated_units) /\
         arg.model_type \notin {"retrospective", "prospective", "prospective-restricted"}
    \/ IsNone(arg.treated_units) /\ arg.model_type # "full"

\* C1 (as claimed): whenever model_type does not fit the presence of
\* treated_units, fit ends in a ValueError and returns no SparseSCFit.
C1_GatingAlwaysValueError ==
    Mismatch =>
        /\ ~Returned
        /\ result = None
        /\ Raised => err.type = "ValueError"

\* C1 (amended): whenever model_type does not fit the presence of
\* treated_units, fit never reaches the scoring and returns no SparseSCFit;
\* the error it ends in is the ValueError of the model_type check when
\* treated_units is None or well formed, and otherwise the error of the
\* treated_units checks, which come first.
C1_Gating ==
    Mismatch =>
        /\ pc \in {"start", "w_pen", "v_pen", "model", "raised"}
        /\ result = None
        /\ Raised =>
              IF IsNone(arg.treated_units) THEN err = Error("ValueError", 405)
              ELSE IF Malformed(arg.treated_units)
              THEN err.line \in {180, 182, 187, 188}
              ELSE err = Error("ValueError", 377)

C1_Witness ==
    /\ Failed("ValueError", 377)
    /\ arg.model_type = "full"
    /\ arg.treated_units = List(<<0>>)

\* C2: when fit ends in a configuration error, no call of get_max_v_pen,
\* CV_score, tensor or weights has been made before it.
C2_EagerErrors ==
    Raised => CallsOf({"get_max_v_pen", "CV_score", "tensor", "weights"}) = {}

\* C3: a treated_units that is not iterable, holds a duplicate, an index
\* >= N or a negative index makes fit fail before any collaborator is
\* called (a ValueError when it is not iterable), and a treated_units with
\* none of these never fails in the validation step.
C3_Validation ==
    ~IsNone(arg.treated_units) =>
        IF Malformed(arg.treated_units)
        THEN /\ pc \in {"start", "raised"}
             /\ calls = <<>>
             /\ result = None
             /\ Raised => /\ err.k = "error"
                          /\ err.line \in {180, 182, 187, 188}
                          /\ NotIterable(arg.treated_units) => err.type = "ValueError"
        ELSE Raised => err.line \notin {180, 182, 187, 188}

C3_Witness ==
    /\ Failed("AssertionError", 188)
    /\ arg.treated_units = List(<<0, -1>>)
    /\ calls = <<>>

\* C4: a scalar covariate_penalties is the penalty given to tensor and the
\* V_penalty of the returned SparseSCFit.
C4_ScalarPenaltyUsed ==
    arg.covariate_penalties.k = "scalar" =>
        /\ \A i \in CallsOf({"tensor"}) : calls[i].v_pen = arg.covariate_penalties
        /\ Returned => result.V_penalty = arg.covariate_penalties

\* C5: with a sequence of covariate penalties and choice "min", the
\* selected penalty is the element of the sequence at a position whose
\* score no other position undercuts.
C5_MinSelection ==
    (IsIterable(covariate_penalties) /\ arg.choice = Str("min")
        /\ pc \in {"tensor", "weights", "return", "done", "predicted"}) =>
        /\ Len(scores.v) = Len(covariate_penalties.v)
        /\ \E i \in 1 .. Len(covariate_penalties.v) :
              /\ best_v_pen = Scalar(covariate_penalties.v[i])
              /\ \A j \in 1 .. Len(scores.v) : scores.v[j] >= scores.v[i]

C5_Witness ==
    /\ pc = "tensor"
    /\ arg.choice = Str("min")
    /\ covariate_penalties = List(<<3, 1>>)
    /\ scores = List(<<1, 0>>)
    /\ best_v_pen = Scalar(1)

\* the covariate penalties fit scores: the argument, or the grid (default
\* or given) scaled by the bound of get_max_v_pen
PenaltiesAreSequence ==
    \/ arg.covariate_penalties.k = "list"
    \/ IsNone(arg.covariate_penalties) /\ arg.grid.k \in {"None", "list"}
InvalidChoice == arg.choice.k = "str" /\ arg.choice.v # "min"
\* the arguments pass the treated_units checks and the model_type gating
WellFormedCall ==
    /\ ~Mismatch
    /\ IsNone(arg.treated_units) \/ ~Malformed(arg.treated_units)

\* C6 (as claimed): a call of fit whose choice is neither "min" nor a
\* callable returns no SparseSCFit, whatever covariate_penalties is.
C6_InvalidChoiceAlwaysFails ==
    InvalidChoice => ~Returned /\ result = None

\* C6 (amended): a call of fit that passes the treated_units checks and
\* the model_type gating, whose choice is neither "min" nor a callable and
\* whose covariate penalties are a sequence (given, or the default grid),
\* ends in the ValueError of __choose before tensor is called and returns
\* no SparseSCFit; with a scalar penalty __choose never raises.
C6_InvalidChoice ==
    (InvalidChoice /\ WellFormedCall) =>
        IF PenaltiesAreSequence
        THEN /\ pc \notin {"tensor", "weights", "return", "done", "predicted"}
             /\ result = None
             /\ CallsOf({"tensor", "weights"}) = {}
             /\ Raised => err = Error("ValueError", 500)
        ELSE ~Raised

C6_Witness ==
    /\ Failed("ValueError", 500)
    /\ IsNone(arg.covariate_penalties)
    /\ IsNone(arg.grid)
    /\ arg.choice = Str("max")

\* sc_weights . D, entry by entry
C7_Product(W, D, P) ==
    /\ P.k = "matrix"
    /\ P.nr = NUnits
    /\ P.nc = D.nc
    /\ \A i \in 1 .. NUnits : \A t \in 1 .. D.nc :
          P.a[i][t] = SumTo([j \in 1 .. D.nr |-> W.a[i][j] * D.a[j][t]], D.nr)

\* the rows of Y that belong to no treated unit, in order
C7_ControlRows(fit) ==
    LET rows == SelectSeq(UnitSeq, LAMBDA u : u \notin Range(fit.treated_units.v))
    IN [k |-> "matrix", nr |-> Len(rows), nc |-> YMat.nc,
        a |-> [j \in 1 .. Len(rows) |-> YMat.a[rows[j] + 1]]]

C8_FromPool(v) == v.k = "rows" /\ v.m = "custom_donor_pool"
C8_Fitting == {"w_pen_guestimate", "get_max_v_pen", "CV_score", "tensor"}

\* C8: custom_donor_pool reaches no call of w_pen_guestimate, get_max_v_pen,
\* CV_score or tensor, in no argument; only the calls of weights receive
\* it (each its own slice, all of it under "full").
C8_DonorPoolOnlyInWeights ==
    /\ \A i \in CallsOf(C8_Fitting) :
          /\ calls[i].custom_donor_pool = NotPassed
          /\ \A f \in {"X", "Xtest", "Y", "X_treat", "Y_treat", "splits", "v_pen",
                       "w_pen", "grad_splits", "random_state", "V"} :
                ~C8_FromPool(calls[i][f])
    /\ \A i \in CallsOf({"weights"}) :
          IF IsNone(arg.custom_donor_pool)
          THEN calls[i].custom_donor_pool = None
          ELSE /\ C8_FromPool(calls[i].custom_donor_pool)
               /\ calls[i].custom_donor_pool.v =
                    (IF calls[i].Xtest = NotPassed
                     THEN calls[i].X.v
                     ELSE calls[i].Xtest.v)

C8_Witness ==
    /\ pc = "return"
    /\ ~IsNone(arg.custom_donor_pool)
    /\ arg.model_type = "prospective"
    /\ Len(calls) = 6
    /\ calls[5].custom_donor_pool = Rows("custom_donor_pool", <<2>>)
    /\ calls[6].custom_donor_pool = Rows("custom_donor_pool", <<0, 1>>)

\* C9: once treated_units has passed the checks, control_units is the
\* complement of treated_units in 0 .. N-1 without duplicates, and the
\* returned SparseSCFit stores both (control_units is None only for "full").
C9_Partition ==
    /\ (~IsNone(arg.treated_units) /\ pc \notin {"start", "raised"}) =>
          /\ control_units.k = "list"
          /\ Range(control_units.v) \cap Range(arg.treated_units.v) = {}
          /\ Range(control_units.v) \cup Range(arg.treated_units.v) = Units
          /\ Cardinality(Range(control_units.v)) = Len(control_units.v)
          /\ Cardinality(Range(arg.treated_units.v)) = Len(arg.treated_units.v)
          /\ Len(control_units.v) + Len(arg.treated_units.v) = NUnits
    /\ Returned =>
          /\ result.treated_units = arg.treated_units
          /\ result.control_units = control_units
          /\ IsNone(result.control_units) <=> result.model_type = "full"

C9_Witness ==
    /\ pc = "done"
    /\ arg.treated_units = List(<<2, 0>>)
    /\ result.control_units = List(<<1>>)

RECURSIVE C10_Kept(_, _)
\* each fold with the treated units T moved to its train set, the folds
\* with an empty side left out
C10_Kept(folds, T) ==
    IF folds = <<>>
    THEN <<>>
    ELSE LET train == Head(folds)[1] \cup T
             test == Head(folds)[2] \ T
         IN (IF train = {} \/ test = {} THEN <<>> ELSE <<<<train, test>>>>)
              \o C10_Kept(Tail(folds), T)

C10_Expected ==
    List(Append(C10_Kept(split.v, Range(arg.treated_units.v)),
                <<Units \ Range(arg.treated_units.v), Range(arg.treated_units.v)>>))

C10_GradCalls == CallsOf({"CV_score", "tensor"})

\* C10 (as claimed): under "prospective" the gradient folds given to
\* CV_score and tensor are the original folds (KFold's or the caller's)
\* with the treated units moved to the train side, the folds with an empty
\* side dropped, and the fold (controls, treated units) appended last.
C10_AlwaysReFormed ==
    arg.model_type = "prospective" =>
        \A i \in C10_GradCalls : calls[i].grad_splits = C10_Expected

\* a caller-supplied fold whose test set is the set of treated units
C10_HasTreatedFold ==
    /\ IsIterable(arg.gradient_folds)
    /\ \E i \in 1 .. Len(arg.gradient_folds.v) :
          arg.gradient_folds.v[i][2] = Range(arg.treated_units.v)

\* C10 (amended): the same, for an integer gradient_folds and for
\* caller-supplied gradient_folds none of whose test sets is the set of
\* treated units; caller-supplied gradient_folds that hold such a fold are
\* given to CV_score and tensor unchanged.
C10_ReFormed ==
    arg.model_type = "prospective" =>
        \A i \in C10_GradCalls :
            /\ IsIterable(arg.gradient_folds) => split = arg.gradient_folds
            /\ ~IsIterable(arg.gradient_folds) =>
                  /\ Len(split.v) = arg.gradient_folds.v
                  /\ \A f \in 1 .. Len(split.v) : split.v[f][1] = Units \ split.v[f][2]
            /\ calls[i].grad_splits =
                 (IF C10_HasTreatedFold THEN arg.gradient_folds ELSE C10_Expected)

C10_Witness ==
    /\ pc = "weights"
    /\ arg.model_type = "prospective"
    /\ arg.treated_units = List(<<0, 2>>)
    /\ arg.gradient_folds = List(<<FoldA, FoldB>>)
    /\ calls[Len(calls)].fn = "tensor"
    /\ calls[Len(calls)].grad_splits = List(<<<<{1}, {0, 2}>>>>)

\* a gradient fold (train, test) over the units 0 .. N-1
C11_ValidFold(f) ==
    /\ f[1] \cap f[2] = {}
    /\ f[1] # {}
    /\ f[2] # {}
    /\ (f[1] \cup f[2]) \subseteq Units

\* C11: under "prospective" every gradient fold (train, test) given to
\* CV_score and tensor has train and test disjoint, both non-empty, and
\* inside 0 .. N-1, for every treated_units that passed the checks (the
\* empty iterable included) and for integer and caller-supplied
\* gradient_folds alike.
C11_FoldsValid ==
    arg.model_type = "prospective" =>
        \A i \in CallsOf({"CV_score", "tensor"}) :
            \A f \in 1 .. Len(calls[i].grad_splits.v) :
                C11_ValidFold(calls[i].grad_splits.v[f])

\* the two calls of weights of the treated_units branch are the last two
C12_Treated == calls[Len(calls) - 1]
C12_Control == calls[Len(calls)]

\* C12: when treated_units is given and fit gets past the weights, the
\* N x C matrix sc_weights has each of its N rows written exactly once: the
\* rows of the treated units by weights(Xtrain, Xtest, ...) with the treated
\* rows of custom_donor_pool, the rows of the control units by
\* weights(Xtrain, ...) with the control rows of custom_donor_pool; no cell
\* is left as np.empty made it.
C12_Assembly ==
    (~IsFull /\ pc \in {"return", "done", "predicted"}) =>
        LET T == arg.treated_units.v
            C == control_units.v
        IN /\ sc_weights.nr = NUnits
           /\ sc_weights.nc = Len(C)
           /\ \A u \in Units : assigned[u] = 1
           /\ \A i \in 1 .. NUnits : \A j \in 1 .. Len(C) :
                 sc_weights.a[i][j] # Garbage
           /\ Len(calls) >= 2
           /\ CallsOf({"weights"}) = {Len(calls) - 1, Len(calls)}
           /\ C12_Treated.X = Rows("X", C)
           /\ C12_Treated.Xtest = Rows("X", T)
           /\ C12_Control.X = Rows("X", C)
           /\ C12_Control.Xtest = NotPassed
           /\ IF IsNone(arg.custom_donor_pool)
              THEN /\ C12_Treated.custom_donor_pool = None
                   /\ C12_Control.custom_donor_pool = None
              ELSE /\ C12_Treated.custom_donor_pool = Rows("custom_donor_pool", T)
                   /\ C12_Control.custom_donor_pool = Rows("custom_donor_pool", C)
           /\ \A p \in 1 .. Len(T) :
                 sc_weights.a[T[p] + 1] = WeightsResult(C, T).a[p]
           /\ \A p \in 1 .. Len(C) :
                 sc_weights.a[C[p] + 1] = WeightsResult(C, C).a[p]

C12_Witness ==
    /\ pc = "return"
    /\ arg.model_type = "prospective-restricted"
    /\ arg.treated_units = List(<<1>>)
    /\ arg.custom_donor_pool = Whole("custom_donor_pool")
    /\ assigned = [u \in Units |-> 1]
    /\ sc_weights.a = <<<<1, 2>>, <<2, 3>>, <<3, 1>>>>
    /\ C12_Treated.custom_donor_pool = Rows("custom_donor_pool", <<1>>)

\* C13: under "prospective-restricted" no call of get_max_v_pen, CV_score
\* or tensor is given gradient_folds or gradient_seed; CV_score and tensor
\* get the control rows as X / Y and the treated rows as X_treat / Y_treat.
C13_NoGradientFolds ==
    (arg.model_type = "prospective-restricted" /\ ~IsFull) =>
        /\ \A i \in CallsOf({"get_max_v_pen", "CV_score", "tensor"}) :
              /\ calls[i].grad_splits = NotPassed
              /\ calls[i].random_state = NotPassed
        /\ \A i \in CallsOf({"CV_score", "tensor"}) :
              /\ calls[i].X = Rows("X", control_units.v)
              /\ calls[i].Y = Rows("Y", control_units.v)
              /\ calls[i].X_treat = Rows("X", arg.treated_units.v)
              /\ calls[i].Y_treat = Rows("Y", arg.treated_units.v)

\* the weight penalty once resolved: the caller's, or w_pen_guestimate's
\* result when the caller gave None
C14_Resolved ==
    IF IsNone(arg.weight_penalty) THEN WPenGuestimate ELSE arg.weight_penalty

\* C14: in the treated_units branch and in the "full" branch, every call
\* that is given a w_pen (get_max_v_pen, CV_score, weights) is given the
\* resolved weight penalty, never None.
C14_WeightPenaltyResolved ==
    \A i \in 1 .. Len(calls) :
        calls[i].w_pen # NotPassed =>
            /\ ~IsNone(calls[i].w_pen)
            /\ calls[i].w_pen = C14_Resolved

\* C15: when covariate_penalties is defaulted, get_max_v_pen is given the
\* rows (X, Y) and the gradient folds that CV_score and tensor are given
\* later in the same execution, under "retrospective", "prospective" and
\* "full".
C15_BoundOnFittedProblem ==
    (/\ IsNone(arg.covariate_penalties)
     /\ arg.model_type \in {"retrospective", "prospective", "full"}) =>
        \A i \in CallsOf({"get_max_v_pen"}) :
            \A j \in CallsOf({"CV_score", "tensor"}) :
                /\ calls[j].X = calls[i].X
                /\ calls[j].Y = calls[i].Y
                /\ calls[j].grad_splits = calls[i].grad_splits

====
